---- MODULE Spec2Model ----
(***************************************************************************)
(* Model of cmd/tendermint/commands/lite.go: the `light` command's         *)
(* runProxy, with checkForExistingProviders and saveProviders.             *)
(*                                                                         *)
(* A string is a sequence of one-character strings, so that strings.Split  *)
(* is modelled by what it does.  The provider database outlives a run of   *)
(* the command; every other variable belongs to the current run.           *)
(***************************************************************************)
EXTENDS Integers, Sequences, FiniteSets, TLC

\* ------------------------------------------------------------------ bounds
\* Largest trusted height given with --height (the smallest is -1).
MaxHeight == 1
\* Largest timeout, in seconds, of the server configuration.
MaxTimeout == 1

\* ------------------------------------------------------------ input domains
\* The empty string.
Empty == <<>>

\* Addresses given with -p.
PrimaryAddrs == { <<"a">>, <<"b">> }

\* Addresses that may appear in the -w list.
WitnessAddrs == { <<"c">>, <<"d", "e">> }

\* All sequences over S of length at most n.
SeqsUpTo(S, n) == UNION { [1..k -> S] : k \in 0..n }

\* Go's strings.Join: the elements of ws separated by sep.
RECURSIVE Join(_, _)
Join(ws, sep) ==
    IF Len(ws) = 0 THEN Empty
    ELSE IF Len(ws) = 1 THEN ws[1]
    ELSE ws[1] \o <<sep>> \o Join(Tail(ws), sep)

\* Witness lists: the lists over WitnessAddrs that name no address twice.
WitnessLists ==
    { ws \in SeqsUpTo(WitnessAddrs, Cardinality(WitnessAddrs)) :
        \A i, j \in 1..Len(ws) : i # j => ws[i] # ws[j] }

\* Values of the -w flag: the witness lists, comma-separated; the default ""
\* is the empty list's.
WitnessFlags == { Join(ws, ",") : ws \in WitnessLists }

\* Values of the --height flag (an int64, so it may be negative).
Heights == (-1)..MaxHeight

\* Values of the --hash flag: the default (empty) and a hash.
Hashes == { Empty, <<"D">> }

\* Values of the --trust-level flag: fractions inside [1/3, 1] (1/3, 1/1),
\* fractions outside it (1/4, 0/1, 4/3), and strings that are no fraction.
TrustLevelStrs ==
    { <<"1", "/", "3">>, <<"1", "/", "1">>,
      <<"1", "/", "4">>, <<"0", "/", "1">>, <<"4", "/", "3">>,
      <<"1", "/", "0">>, Empty, <<"1">>, <<"x", "/", "3">>,
      <<"1", "/", "3", "/", "1">> }

\* Timeouts of the server configuration, in seconds.
Timeouts == 0..MaxTimeout

\* --------------------------------------------------------------- constants
\* 1*time.Second, in seconds.
Second == 1

\* ------------------------------------------------------------------ strings
\* Index of the first occurrence of the character sep in s, 0 if none.
IndexOf(s, sep) ==
    IF \E i \in 1..Len(s) : s[i] = sep
    THEN CHOOSE i \in 1..Len(s) : s[i] = sep /\ \A j \in 1..(i - 1) : s[j] # sep
    ELSE 0

\* Go's strings.Split(s, sep) for a one-character sep: the substrings
\* between the separators; a string without separator, the empty string
\* included, yields the one-element list holding it.
RECURSIVE Split(_, _)
Split(s, sep) ==
    LET i == IndexOf(s, sep)
    IN  IF i = 0 THEN <<s>>
        ELSE <<SubSeq(s, 1, i - 1)>> \o Split(SubSeq(s, i + 1, Len(s)), sep)

\* ----------------------------------------------------------------- database
\* The database maps the keys it holds to strings.
Keys == { "p", "w" }

EmptyDB == [k \in {} |-> Empty]

\* db.Set(key, value).
Set(d, key, value) == [k \in DOMAIN d \cup {key} |-> IF k = key THEN value ELSE d[k]]

\* string(db.Get(key)): the value, or "" (from nil bytes) for an absent key.
Get(d, key) == IF key \in DOMAIN d THEN d[key] ELSE Empty

\* Where a database operation of a call may fail: at the access of "p", at
\* the access of "w", or nowhere.
Faults == { "none", "p", "w" }

checkForExistingProvidersDroppingError(d, fault) ==
    IF fault = "p" THEN [primary |-> Empty, witnesses |-> <<Empty>>, err |-> TRUE]
    ELSE [primary |-> Get(d, "p"), witnesses |-> Split(Get(d, "w"), ","), err |-> FALSE]

checkForExistingProvidersUnsplit(d, fault) ==
    IF fault = "p" THEN [primary |-> Empty, witnesses |-> <<Empty>>, err |-> TRUE]
    ELSE IF fault = "w" THEN [primary |-> Empty, witnesses |-> <<Empty>>, err |-> TRUE]
    ELSE [primary |-> Get(d, "p"), witnesses |-> <<Get(d, "w")>>, err |-> FALSE]

\* checkForExistingProviders: reads "p" then "w"; on an error of either read
\* returns "", []string{""} and the error.
checkForExistingProviders(d, fault) ==
    IF fault = "p" THEN [primary |-> Empty, witnesses |-> <<Empty>>, err |-> TRUE]
    ELSE IF fault = "w" THEN [primary |-> Empty, witnesses |-> <<Empty>>, err |-> TRUE]
    ELSE [primary |-> Get(d, "p"), witnesses |-> Split(Get(d, "w"), ","), err |-> FALSE]

saveProvidersDroppingError(d, primary, witnesses, fault) ==
    IF fault = "p" THEN [db |-> d, err |-> TRUE]
    ELSE IF fault = "w" THEN [db |-> Set(d, "p", primary), err |-> FALSE]
    ELSE [db |-> Set(Set(d, "p", primary), "w", witnesses), err |-> FALSE]

saveProvidersAppending(d, primary, witnesses, fault) ==
    IF fault = "p" THEN [db |-> d, err |-> TRUE]
    ELSE IF fault = "w" THEN [db |-> Set(d, "p", primary), err |-> TRUE]
    ELSE [db |-> Set(Set(d, "p", primary), "w", Get(d, "w") \o witnesses),
          err |-> FALSE]

\* saveProviders: sets "p" then "w", returning at the first error; gives the
\* database afterwards and whether an error is returned.
saveProviders(d, primary, witnesses, fault) ==
    IF fault = "p" THEN [db |-> d, err |-> TRUE]
    ELSE IF fault = "w" THEN [db |-> Set(d, "p", primary), err |-> TRUE]
    ELSE [db |-> Set(Set(d, "p", primary), "w", witnesses), err |-> FALSE]

\* ------------------------------------------------------------- trust level
\* Value of a decimal digit character.
DigitVal(ch) ==
    CASE ch = "0" -> 0 [] ch = "1" -> 1 [] ch = "2" -> 2 [] ch = "3" -> 3
      [] ch = "4" -> 4 [] ch = "5" -> 5 [] ch = "6" -> 6 [] ch = "7" -> 7
      [] ch = "8" -> 8 [] ch = "9" -> 9

DecimalDigits == { "0", "1", "2", "3", "4", "5", "6", "7", "8", "9" }

\* s is a non-empty string of decimal digits.
IsNumber(s) == Len(s) > 0 /\ \A i \in 1..Len(s) : s[i] \in DecimalDigits

\* The number a string of decimal digits denotes.
RECURSIVE Atoi(_)
Atoi(s) ==
    IF Len(s) = 0 THEN 0
    ELSE 10 * Atoi(SubSeq(s, 1, Len(s) - 1)) + DigitVal(s[Len(s)])

NoFraction == [Numerator |-> 0, Denominator |-> 0]

\* tmmath.NewFraction, the trust-level validation: the string must read
\* "numerator/denominator" and the fraction must lie in [1/3, 1].
NewFraction(s) ==
    LET parts == Split(s, "/")
    IN  IF Len(parts) # 2 \/ ~IsNumber(parts[1]) \/ ~IsNumber(parts[2])
        THEN [value |-> NoFraction, err |-> TRUE]
        ELSE LET n == Atoi(parts[1])
                 d == Atoi(parts[2])
             IN  IF d = 0 \/ 3 * n < d \/ n > d
                 THEN [value |-> NoFraction, err |-> TRUE]
                 ELSE [value |-> [Numerator |-> n, Denominator |-> d], err |-> FALSE]

\* ------------------------------------------------------- pieces of runProxy
flagWitnessesUnguarded(joined) == Split(joined, ",")

\* witnessesAddrs, from the -w flag: strings.Split, but the empty list when
\* no witnesses were given.
flagWitnesses(joined) == IF joined = Empty THEN <<>> ELSE Split(joined, ",")

freshInstallationAboveOne(height, hash) == height > 1 /\ Len(hash) > 0

freshInstallationEither(height, hash) == height > 0 \/ Len(hash) > 0

\* The test for a fresh installation.
freshInstallation(height, hash) == height > 0 /\ Len(hash) > 0

\* light.SequentialVerification() and light.SkippingVerification(trustLevel).
SequentialVerification == [mode |-> "sequential", trustLevel |-> NoFraction]

SkippingVerification(level) == [mode |-> "skipping", trustLevel |-> level]

\* The verification option runProxy passes to the constructor of each of its
\* four calls.
verificationOption(fresh, seq, level) ==
    IF fresh
    THEN IF seq THEN SequentialVerification ELSE SkippingVerification(level)
    ELSE IF seq THEN SkippingVerification(level) ELSE SequentialVerification

adjustWriteTimeoutStrict(writeTimeout, timeoutBroadcastTxCommit) ==
    IF writeTimeout < timeoutBroadcastTxCommit
    THEN timeoutBroadcastTxCommit + 1 * Second
    ELSE writeTimeout

\* cfg.WriteTimeout after the adjustment against TimeoutBroadcastTxCommit.
adjustWriteTimeout(writeTimeout, timeoutBroadcastTxCommit) ==
    IF writeTimeout <= timeoutBroadcastTxCommit
    THEN timeoutBroadcastTxCommit + 1 * Second
    ELSE writeTimeout

logsServeErrorAlways(err) == TRUE

\* Whether runProxy logs the error ListenAndServe returned.
logsServeError(err) == err # "ErrServerClosed"

\* What runProxy returns after ListenAndServe has returned err.
returnAfterServe(err) == "nil"

\* ----------------------------------------------------------- collaborators
\* light.NewHTTPClient and light.NewHTTPClientFromTrustedStore: build the
\* client or fail with a construction error.
ConstructionOutcomes == { "nil", "ConstructionError" }

\* rpchttp.New: an RPC client for the primary, or an error.
RPCClientOutcomes == { "nil", "RPCClientError" }

\* Binding the listen address in ListenAndServe.
ListenOutcomes == { "nil", "BindError" }

\* What the serve loop of ListenAndServe may return in a state of the
\* listener: the listener-closed condition once the listener is closed, a
\* serve-time error while it is open.
ServeOutcomes(l) == IF l = "closed" THEN { "ErrServerClosed" } ELSE { "ServeError" }

\* -------------------------------------------------------------------- state
VARIABLES
    pc,                       \* where the current run of runProxy stands
    db,                       \* the light-client database (keys "p" and "w")
    primaryFlag,              \* the -p flag as given on invocation
    primaryAddr,              \* primaryAddr (overwritten by the stored primary)
    witnessAddrsJoined,       \* the -w flag
    witnessesAddrs,           \* witnessesAddrs
    trustedHeight,            \* the --height flag
    trustedHash,              \* the --hash flag
    sequential,               \* the --sequential flag
    trustLevelStr,            \* the --trust-level flag, once read
    trustLevel,               \* the parsed trust level
    c,                        \* the construction call made for the client
    cfg,                      \* the server configuration
    defaultWriteTimeout,      \* WriteTimeout of rpcserver.DefaultConfig()
    timeoutBroadcastTxCommit, \* config.RPC.TimeoutBroadcastTxCommit
    trapped,                  \* the shutdown callback is registered
    signalled,                \* a termination signal has been handled
    listener,                 \* p.Listener: "nil", "open" or "closed"
    serveErr,                 \* what ListenAndServe returned
    logged,                   \* the errors logged by this run
    ret,                      \* what runProxy returned
    lastSaved,                \* the latest saveProviders call (over all
                              \* runs), if it returned no error, and whether
                              \* it repeated the one before it
    dbFault,                  \* which database access failed while this run
                              \* read or saved its providers
    saveErr                   \* what saveProviders returned to this run:
                              \* "none" (not called), "nil" or "err"

vars == <<pc, db, primaryFlag, primaryAddr, witnessAddrsJoined, witnessesAddrs,
          trustedHeight, trustedHash, sequential, trustLevelStr, trustLevel, c,
          cfg, defaultWriteTimeout, timeoutBroadcastTxCommit, trapped, signalled,
          listener, serveErr, logged, ret, lastSaved, dbFault, saveErr>>

flagVars == <<primaryFlag, witnessAddrsJoined, trustedHeight, trustedHash, sequential>>

serverVars == <<cfg, defaultWriteTimeout, timeoutBroadcastTxCommit, trapped,
                signalled, listener, serveErr>>

\* No construction call made (c is nil).
NoClient ==
    [kind |-> "none", height |-> 0, hash |-> Empty, primary |-> Empty,
     witnesses |-> <<>>, option |-> SequentialVerification, err |-> "nil"]

NoSave ==
    [saved |-> FALSE, again |-> FALSE, primary |-> Empty, joined |-> Empty,
     witnesses |-> <<>>, after |-> EmptyDB]

NoConfig == [WriteTimeout |-> 0]

\* The state of a process before runProxy has done anything: the flags at
\* their defaults.
RunReset ==
    /\ primaryFlag' = Empty
    /\ primaryAddr' = Empty
    /\ witnessAddrsJoined' = Empty
    /\ witnessesAddrs' = <<>>
    /\ trustedHeight' = 1
    /\ trustedHash' = Empty
    /\ sequential' = FALSE
    /\ trustLevelStr' = Empty
    /\ trustLevel' = NoFraction
    /\ c' = NoClient
    /\ cfg' = NoConfig
    /\ defaultWriteTimeout' = 0
    /\ timeoutBroadcastTxCommit' = 0
    /\ trapped' = FALSE
    /\ signalled' = FALSE
    /\ listener' = "nil"
    /\ serveErr' = "none"
    /\ logged' = {}
    /\ ret' = "none"
    /\ dbFault' = "none"
    /\ saveErr' = "none"

\* A home directory without database, and no run started yet.
Init ==
    /\ pc = "idle"
    /\ db = EmptyDB
    /\ primaryFlag = Empty
    /\ primaryAddr = Empty
    /\ witnessAddrsJoined = Empty
    /\ witnessesAddrs = <<>>
    /\ trustedHeight = 1
    /\ trustedHash = Empty
    /\ sequential = FALSE
    /\ trustLevelStr = Empty
    /\ trustLevel = NoFraction
    /\ c = NoClient
    /\ cfg = NoConfig
    /\ defaultWriteTimeout = 0
    /\ timeoutBroadcastTxCommit = 0
    /\ trapped = FALSE
    /\ signalled = FALSE
    /\ listener = "nil"
    /\ serveErr = "none"
    /\ logged = {}
    /\ ret = "none"
    /\ lastSaved = NoSave
    /\ dbFault = "none"
    /\ saveErr = "none"

\* runProxy returns e.
Return(e) == ret' = e /\ pc' = "done"

\* ------------------------------------------------------------------ actions
\* The command is invoked with its flags; runProxy computes witnessesAddrs
\* from -w.
Start ==
    /\ pc = "idle"
    /\ \E p \in PrimaryAddrs \cup { Empty }, w \in WitnessFlags,
          h \in Heights, hash \in Hashes, seq \in BOOLEAN :
          /\ primaryFlag' = p
          /\ primaryAddr' = p
          /\ witnessAddrsJoined' = w
          /\ witnessesAddrs' = flagWitnesses(w)
          /\ trustedHeight' = h
          /\ trustedHash' = hash
          /\ sequential' = seq
    /\ pc' = "open"
    /\ UNCHANGED <<db, trustLevelStr, trustLevel, c, serverVars, logged, ret,
                   lastSaved, dbFault, saveErr>>

\* dbm.NewGoLevelDB: the database is opened, or the run ends with the error.
OpenDB ==
    /\ pc = "open"
    /\ \E ok \in BOOLEAN :
          IF ok THEN pc' = "providers" /\ ret' = ret
          ELSE Return("DBOpenError")
    /\ UNCHANGED <<db, flagVars, primaryAddr, witnessesAddrs, trustLevelStr,
                   trustLevel, c, serverVars, logged, lastSaved, dbFault, saveErr>>

LoadProvidersUnchecked ==
    /\ pc = "providers"
    /\ primaryAddr = Empty
    /\ \E fault \in Faults :
          LET r == checkForExistingProviders(db, fault)
          IN  /\ primaryAddr' = r.primary
              /\ witnessesAddrs' = r.witnesses
              /\ dbFault' = fault
              /\ IF r.err THEN Return("LoadError")
                 ELSE pc' = "trustLevel" /\ ret' = ret
    /\ UNCHANGED <<db, flagVars, trustLevelStr, trustLevel, c, serverVars,
                   logged, lastSaved, saveErr>>

\* No primary given: the providers are read from the database.
LoadProviders ==
    /\ pc = "providers"
    /\ primaryAddr = Empty
    /\ \E fault \in Faults :
          LET r == checkForExistingProviders(db, fault)
          IN  /\ primaryAddr' = r.primary
              /\ witnessesAddrs' = r.witnesses
              /\ dbFault' = fault
              /\ IF r.err THEN Return("LoadError")
                 ELSE IF r.primary = Empty THEN Return("MissingPrimary")
                 ELSE pc' = "trustLevel" /\ ret' = ret
    /\ UNCHANGED <<db, flagVars, trustLevelStr, trustLevel, c, serverVars,
                   logged, lastSaved, saveErr>>

\* The save about to be made repeats the latest one, which returned no error.
SameAsLastSaved ==
    /\ lastSaved.saved
    /\ lastSaved.primary = primaryAddr
    /\ lastSaved.joined = witnessAddrsJoined

SaveProvidersSkipped ==
    /\ pc = "providers"
    /\ primaryAddr # Empty
    /\ pc' = "trustLevel"
    /\ UNCHANGED <<db, flagVars, primaryAddr, witnessesAddrs, trustLevelStr,
                   trustLevel, c, serverVars, logged, ret, lastSaved, dbFault,
                   saveErr>>

SaveProvidersFatal ==
    /\ pc = "providers"
    /\ primaryAddr # Empty
    /\ \E fault \in Faults :
          LET r == saveProviders(db, primaryAddr, witnessAddrsJoined, fault)
          IN  /\ db' = r.db
              /\ dbFault' = fault
              /\ saveErr' = IF r.err THEN "err" ELSE "nil"
              /\ logged' = IF r.err THEN logged \cup { "save" } ELSE logged
              /\ lastSaved' = IF r.err THEN NoSave
                              ELSE [saved |-> TRUE,
                                    again |-> SameAsLastSaved,
                                    primary |-> primaryAddr,
                                    joined |-> witnessAddrsJoined,
                                    witnesses |-> witnessesAddrs, after |-> r.db]
              /\ IF r.err THEN Return("SaveError")
                 ELSE pc' = "trustLevel" /\ ret' = ret
    /\ UNCHANGED <<flagVars, primaryAddr, witnessesAddrs, trustLevelStr,
                   trustLevel, c, serverVars>>

\* A primary given: the providers are saved; an error is only logged.
SaveProviders ==
    /\ pc = "providers"
    /\ primaryAddr # Empty
    /\ \E fault \in Faults :
          LET r == saveProviders(db, primaryAddr, witnessAddrsJoined, fault)
          IN  /\ db' = r.db
              /\ dbFault' = fault
              /\ saveErr' = IF r.err THEN "err" ELSE "nil"
              /\ logged' = IF r.err THEN logged \cup { "save" } ELSE logged
              /\ lastSaved' = IF r.err THEN NoSave
                              ELSE [saved |-> TRUE,
                                    again |-> SameAsLastSaved,
                                    primary |-> primaryAddr,
                                    joined |-> witnessAddrsJoined,
                                    witnesses |-> witnessesAddrs, after |-> r.db]
    /\ pc' = "trustLevel"
    /\ UNCHANGED <<flagVars, primaryAddr, witnessesAddrs, trustLevelStr,
                   trustLevel, c, serverVars, ret>>

ParseTrustLevelUnchecked ==
    /\ pc = "trustLevel"
    /\ \E s \in TrustLevelStrs :
          LET r == NewFraction(s)
          IN  /\ trustLevelStr' = s
              /\ trustLevel' = r.value
    /\ pc' = "client"
    /\ UNCHANGED <<db, flagVars, primaryAddr, witnessesAddrs, c, serverVars,
                   logged, ret, lastSaved, dbFault, saveErr>>

\* The trust level is parsed; the run ends if that fails.
ParseTrustLevel ==
    /\ pc = "trustLevel"
    /\ \E s \in TrustLevelStrs :
          LET r == NewFraction(s)
          IN  /\ trustLevelStr' = s
              /\ trustLevel' = r.value
              /\ IF r.err THEN Return("InvalidTrustLevel")
                 ELSE pc' = "client" /\ ret' = ret
    /\ UNCHANGED <<db, flagVars, primaryAddr, witnessesAddrs, c, serverVars,
                   logged, lastSaved, dbFault, saveErr>>

NewClientUnchecked ==
    /\ pc = "client"
    /\ \E e \in ConstructionOutcomes :
          LET fresh == freshInstallation(trustedHeight, trustedHash)
          IN  c' = [kind |-> IF fresh THEN "fresh" ELSE "resume",
                    height |-> IF fresh THEN trustedHeight ELSE 0,
                    hash |-> IF fresh THEN trustedHash ELSE Empty,
                    primary |-> primaryAddr,
                    witnesses |-> witnessesAddrs,
                    option |-> verificationOption(fresh, sequential, trustLevel),
                    err |-> e]
    /\ pc' = "rpcClient"
    /\ UNCHANGED <<db, flagVars, primaryAddr, witnessesAddrs, trustLevelStr,
                   trustLevel, serverVars, logged, ret, lastSaved, dbFault,
                   saveErr>>

\* One of the four construction calls is made; the run ends if it fails.
NewClient ==
    /\ pc = "client"
    /\ \E e \in ConstructionOutcomes :
          LET fresh == freshInstallation(trustedHeight, trustedHash)
          IN  /\ c' = [kind |-> IF fresh THEN "fresh" ELSE "resume",
                       height |-> IF fresh THEN trustedHeight ELSE 0,
                       hash |-> IF fresh THEN trustedHash ELSE Empty,
                       primary |-> primaryAddr,
                       witnesses |-> witnessesAddrs,
                       option |-> verificationOption(fresh, sequential, trustLevel),
                       err |-> e]
              /\ IF e # "nil" THEN Return(e)
                 ELSE pc' = "rpcClient" /\ ret' = ret
    /\ UNCHANGED <<db, flagVars, primaryAddr, witnessesAddrs, trustLevelStr,
                   trustLevel, serverVars, logged, lastSaved, dbFault, saveErr>>

\* rpchttp.New for the primary; the run ends if it fails.
NewRPCClient ==
    /\ pc = "rpcClient"
    /\ \E e \in RPCClientOutcomes :
          IF e # "nil" THEN Return(e)
          ELSE pc' = "config" /\ ret' = ret
    /\ UNCHANGED <<db, flagVars, primaryAddr, witnessesAddrs, trustLevelStr,
                   trustLevel, c, serverVars, logged, lastSaved, dbFault, saveErr>>

\* The server configuration is taken from the defaults and WriteTimeout is
\* adjusted; the proxy is built, its Listener still nil.
Configure ==
    /\ pc = "config"
    /\ \E wt \in Timeouts, tb \in Timeouts :
          /\ defaultWriteTimeout' = wt
          /\ timeoutBroadcastTxCommit' = tb
          /\ cfg' = [WriteTimeout |-> adjustWriteTimeout(wt, tb)]
    /\ pc' = "trap"
    /\ UNCHANGED <<db, flagVars, primaryAddr, witnessesAddrs, trustLevelStr,
                   trustLevel, c, trapped, signalled, listener, serveErr,
                   logged, ret, lastSaved, dbFault, saveErr>>

\* tmos.TrapSignal registers the callback that closes p.Listener.
TrapSignal ==
    /\ pc = "trap"
    /\ trapped' = TRUE
    /\ pc' = "listen"
    /\ UNCHANGED <<db, flagVars, primaryAddr, witnessesAddrs, trustLevelStr,
                   trustLevel, c, cfg, defaultWriteTimeout,
                   timeoutBroadcastTxCommit, signalled, listener, serveErr,
                   logged, ret, lastSaved, dbFault, saveErr>>

\* ListenAndServe binds the listen address and sets p.Listener, or returns
\* the bind error.
Listen ==
    /\ pc = "listen"
    /\ \E e \in ListenOutcomes :
          IF e = "nil"
          THEN listener' = "open" /\ serveErr' = serveErr /\ pc' = "serve"
          ELSE listener' = listener /\ serveErr' = e /\ pc' = "served"
    /\ UNCHANGED <<db, flagVars, primaryAddr, witnessesAddrs, trustLevelStr,
                   trustLevel, c, cfg, defaultWriteTimeout,
                   timeoutBroadcastTxCommit, trapped, signalled, logged, ret,
                   lastSaved, dbFault, saveErr>>

\* The serve loop of ListenAndServe returns.
Serve ==
    /\ pc = "serve"
    /\ \E e \in ServeOutcomes(listener) : serveErr' = e
    /\ pc' = "served"
    /\ UNCHANGED <<db, flagVars, primaryAddr, witnessesAddrs, trustLevelStr,
                   trustLevel, c, cfg, defaultWriteTimeout,
                   timeoutBroadcastTxCommit, trapped, signalled, listener,
                   logged, ret, lastSaved, dbFault, saveErr>>

\* runProxy logs the error of ListenAndServe unless it is ErrServerClosed,
\* and returns.
AfterServe ==
    /\ pc = "served"
    /\ logged' = IF logsServeError(serveErr) THEN logged \cup { "serve" } ELSE logged
    /\ Return(returnAfterServe(serveErr))
    /\ UNCHANGED <<db, flagVars, primaryAddr, witnessesAddrs, trustLevelStr,
                   trustLevel, c, serverVars, lastSaved, dbFault, saveErr>>

\* A termination signal arrives and the registered callback runs
\* p.Listener.Close(): on a nil Listener the process panics.
Signal ==
    /\ trapped
    /\ ~signalled
    /\ pc \in { "listen", "serve", "served" }
    /\ signalled' = TRUE
    /\ IF listener = "nil"
       THEN pc' = "panic" /\ listener' = listener
       ELSE pc' = pc /\ listener' = "closed"
    /\ UNCHANGED <<db, flagVars, primaryAddr, witnessesAddrs, trustLevelStr,
                   trustLevel, c, cfg, defaultWriteTimeout,
                   timeoutBroadcastTxCommit, trapped, serveErr, logged, ret,
                   lastSaved, dbFault, saveErr>>

\* The process ends, runProxy having returned or the process having
\* panicked; only the database remains for the next run.
Exit ==
    /\ pc \in { "done", "panic" }
    /\ RunReset
    /\ pc' = "idle"
    /\ UNCHANGED <<db, lastSaved>>

Next ==
    \/ Start
    \/ OpenDB
    \/ LoadProviders
    \/ SaveProviders
    \/ ParseTrustLevel
    \/ NewClient
    \/ NewRPCClient
    \/ Configure
    \/ TrapSignal
    \/ Listen
    \/ Serve
    \/ AfterServe
    \/ Signal
    \/ Exit

Spec == Init /\ [][Next]_vars

\* ------------------------------------------------------------------- claims
\* The run has read its providers: the database was opened and, when no
\* primary was given, read without error.
ProvidersResolved ==
    /\ pc \notin { "idle", "open", "providers" }
    /\ ret \notin { "DBOpenError", "LoadError" }

\* The run has passed the trust-level validation step (it did not end before).
TrustLevelRead ==
    /\ ProvidersResolved
    /\ pc # "trustLevel"
    /\ ret # "MissingPrimary"

\* The run stands at the trust-level validation or has passed it.
TrustLevelReached ==
    /\ ProvidersResolved
    /\ ret # "MissingPrimary"

\* The run has passed the construction of the client.
ClientCalled == TrustLevelRead /\ pc # "client" /\ ret # "InvalidTrustLevel"

\* C1: whenever a construction call has been made, its verification option
\* is the sequential one if --sequential is set and the skipping one with
\* the parsed trust level otherwise, on the fresh and on the resume path.
C1_StrategyFollowsSequential ==
    c.kind # "none" =>
        c.option = IF sequential THEN SequentialVerification
                   ELSE SkippingVerification(trustLevel)

\* C2: with a height above 0 and a non-empty hash, the construction call a
\* run makes is the fresh one, carrying that height and hash, whatever the
\* database holds.
C2_FreshWhateverStore ==
    (ClientCalled /\ trustedHeight > 0 /\ trustedHash # Empty) =>
        /\ c.kind = "fresh"
        /\ c.height = trustedHeight
        /\ c.hash = trustedHash

\* A fresh call made by a run that took its providers from the database, which
\* an earlier run had filled.
C2_Witness ==
    /\ c.kind = "fresh"
    /\ primaryFlag = Empty
    /\ DOMAIN db = Keys
    /\ c.primary = db["p"]

\* C3: with a height of 0 or less, or an empty hash, the construction call a
\* run makes is the resume one; and such a run that was given no primary and
\* reads a database without primary ends with MissingPrimary.
C3_ResumeOtherwise ==
    (trustedHeight <= 0 \/ trustedHash = Empty) =>
        /\ ClientCalled => c.kind = "resume"
        /\ (pc = "done" /\ ProvidersResolved /\ primaryFlag = Empty
              /\ Get(db, "p") = Empty) => ret = "MissingPrimary"

\* A resume call made although the height alone is that of a fresh start.
C3_Witness ==
    /\ c.kind = "resume"
    /\ trustedHeight > 0
    /\ trustedHash = Empty

\* C4: a run that loads the providers which the latest save wrote gets the
\* primary and the witness list that the saving run had.
C4_RoundTrip ==
    (ProvidersResolved /\ primaryFlag = Empty /\ lastSaved.saved) =>
        /\ primaryAddr = lastSaved.primary
        /\ witnessesAddrs = lastSaved.witnesses

\* C5: a run that reads a trust-level string which does not parse or lies
\* outside [1/3, 1] ends with InvalidTrustLevel, and no client is
\* constructed, no listener bound and nothing served in it.
C5_InvalidTrustLevel ==
    (TrustLevelRead /\ NewFraction(trustLevelStr).err) =>
        /\ pc = "done"
        /\ ret = "InvalidTrustLevel"
        /\ c = NoClient
        /\ listener = "nil"
        /\ serveErr = "none"

\* An out-of-range trust level rejected on a run set for sequential
\* verification of a fresh start.
C5_Witness ==
    /\ ret = "InvalidTrustLevel"
    /\ trustLevelStr = <<"1", "/", "4">>
    /\ sequential
    /\ freshInstallation(trustedHeight, trustedHash)

\* C6: a run given no primary, with no primary in the database, constructs
\* no client and binds no listener, and once it has read the database it has
\* ended with MissingPrimary.
C6_MissingPrimary ==
    (pc # "idle" /\ primaryFlag = Empty /\ Get(db, "p") = Empty) =>
        /\ c = NoClient
        /\ listener = "nil"
        /\ serveErr = "none"
        /\ ProvidersResolved => (pc = "done" /\ ret = "MissingPrimary")

\* MissingPrimary on a run whose other options ask for a fresh start.
C6_Witness ==
    /\ ret = "MissingPrimary"
    /\ primaryFlag = Empty
    /\ freshInstallation(trustedHeight, trustedHash)
    /\ sequential

\* C7: when ListenAndServe has returned an error other than ErrServerClosed,
\* the error is logged and runProxy returns it.
C7_ServeErrorReturned ==
    (pc = "done" /\ serveErr \notin { "none", "ErrServerClosed" }) =>
        /\ "serve" \in logged
        /\ ret = serveErr

\* C8: when ListenAndServe has returned ErrServerClosed, which it does only
\* after the signal's callback closed the listener, runProxy logs no serve
\* error and returns nil.
C8_ClosedIsSuccess ==
    /\ (pc \in { "served", "done" } /\ serveErr = "ErrServerClosed") =>
            (signalled /\ listener = "closed" /\ "serve" \notin logged)
    /\ (pc = "done" /\ serveErr = "ErrServerClosed") => ret = "nil"

\* The run has returned after the signal closed its listener.
C8_Witness ==
    /\ pc = "done"
    /\ serveErr = "ErrServerClosed"
    /\ signalled
    /\ ret = "nil"

\* C9: while the server is about to listen, listening or serving, its
\* WriteTimeout exceeds TimeoutBroadcastTxCommit: it is that timeout plus
\* one second if the default did not exceed it, and the default otherwise.
C9_WriteTimeoutExceeds ==
    (pc \in { "listen", "serve", "served" }) =>
        /\ cfg.WriteTimeout > timeoutBroadcastTxCommit
        /\ defaultWriteTimeout <= timeoutBroadcastTxCommit
              => cfg.WriteTimeout = timeoutBroadcastTxCommit + Second
        /\ defaultWriteTimeout > timeoutBroadcastTxCommit
              => cfg.WriteTimeout = defaultWriteTimeout

\* A server serving with a WriteTimeout that was raised.
C9_Witness ==
    /\ pc = "serve"
    /\ listener = "open"
    /\ defaultWriteTimeout < timeoutBroadcastTxCommit
    /\ cfg.WriteTimeout = timeoutBroadcastTxCommit + Second

\* C10: a save for the primary and witnesses that the latest save wrote
\* without error leaves the database as that save left it.
C10_SaveIdempotent ==
    [][(pc = "providers" /\ primaryAddr # Empty /\ SameAsLastSaved
            /\ pc' = "trustLevel")
        => db' = lastSaved.after]_vars

\* A second save done with the primary and the non-empty witness list of the
\* save before it.
C10_Witness ==
    /\ lastSaved.saved
    /\ lastSaved.again
    /\ lastSaved.joined # Empty
    /\ pc = "trustLevel"

\* ws is the witness list that the comma-separated string joined names.
IsWitnessListOf(ws, joined) == ws \in WitnessLists /\ Join(ws, ",") = joined

\* C11: on a run given a primary, the construction call is made with that
\* primary and the witness list given with -w (the empty list for ""),
\* whatever the database held; and when saveProviders returned no error the
\* database holds exactly the given primary and witnesses.
C11_SuppliedPrimaryAuthoritative ==
    (primaryFlag # Empty) =>
        /\ c.kind # "none" =>
              /\ c.primary = primaryFlag
              /\ IsWitnessListOf(c.witnesses, witnessAddrsJoined)
              /\ witnessAddrsJoined = Empty => c.witnesses = <<>>
        /\ saveErr = "nil" =>
              db = [k \in Keys |-> IF k = "p" THEN primaryFlag
                                   ELSE witnessAddrsJoined]

\* The scenario: primary a, no witnesses, a fresh start with skipping
\* verification at trust level 1/3; the client is built and the database
\* holds a and "".
C11_Witness ==
    /\ primaryFlag = <<"a">>
    /\ witnessAddrsJoined = Empty
    /\ c.kind = "fresh"
    /\ c.err = "nil"
    /\ c.primary = <<"a">>
    /\ c.witnesses = <<>>
    /\ c.option = SkippingVerification([Numerator |-> 1, Denominator |-> 3])
    /\ ~sequential
    /\ saveErr = "nil"
    /\ db = [k \in Keys |-> IF k = "p" THEN <<"a">> ELSE Empty]

\* C12: on a run given no primary, over a database that holds a primary and
\* a non-empty comma-separated witness list, the construction call is made
\* with exactly that primary and those witnesses in their order, and no step
\* of the run changes the database.
C12_ResumeFromStore ==
    [][(primaryFlag = Empty /\ pc # "idle") =>
          /\ db' = db
          /\ (c'.kind # "none" /\ Get(db, "w") # Empty) =>
                /\ c'.primary = Get(db, "p")
                /\ IsWitnessListOf(c'.witnesses, Get(db, "w"))]_vars

\* The scenario: the database holds primary b and witnesses "c,de"; a run
\* without -p and without --hash builds its client with b and [c, de].
C12_Witness ==
    /\ primaryFlag = Empty
    /\ trustedHash = Empty
    /\ db = [k \in Keys |-> IF k = "p" THEN <<"b">> ELSE <<"c", ",", "d", "e">>]
    /\ c.kind = "resume"
    /\ c.err = "nil"
    /\ c.primary = <<"b">>
    /\ c.witnesses = << <<"c">>, <<"d", "e">> >>

\* C13: once saveProviders has been called in a run, it returned no error
\* only if both entries hold the given values, and it returned an error
\* whenever one of its two writes failed; so the database never holds the
\* given primary beside other witnesses unless an error was returned.
C13_SaveReportsFailure ==
    (saveErr # "none") =>
        /\ saveErr = "nil" =>
              /\ Get(db, "p") = primaryFlag
              /\ Get(db, "w") = witnessAddrsJoined
              /\ DOMAIN db = Keys
        /\ dbFault # "none" => saveErr = "err"
        /\ (Get(db, "p") = primaryFlag /\ Get(db, "w") # witnessAddrsJoined)
              => saveErr = "err"

\* The write of "w" failed after the write of "p": the new primary stands
\* beside the witnesses of an earlier save, and the error was returned.
C13_Witness ==
    /\ dbFault = "w"
    /\ saveErr = "err"
    /\ Get(db, "p") = primaryFlag
    /\ "w" \in DOMAIN db
    /\ db["w"] # witnessAddrsJoined

\* C14: on a run given no primary that has read the database: if a read of
\* either key failed, the run has ended with the load error and made no
\* construction call; if none failed, the run has ended with MissingPrimary
\* exactly when the key "p" is absent (an absent "w" beside a present "p"
\* does not end it).
C14_LoadErrors ==
    (primaryFlag = Empty /\ pc \notin { "idle", "open", "providers" }
        /\ ret # "DBOpenError") =>
        /\ dbFault # "none" =>
              (pc = "done" /\ ret = "LoadError" /\ c = NoClient
                 /\ listener = "nil" /\ serveErr = "none")
        /\ dbFault = "none" =>
              /\ ret # "LoadError"
              /\ ret = "MissingPrimary" <=> "p" \notin DOMAIN db

\* A failed read of "w", over a database that holds a primary, has ended the
\* run.
C14_Witness ==
    /\ primaryFlag = Empty
    /\ dbFault = "w"
    /\ "p" \in DOMAIN db
    /\ pc = "done"
    /\ ret = "LoadError"

\* C15: once the callback is registered, the signal's handler never acts on
\* a Listener that does not exist: no run ends in the panic of
\* p.Listener.Close() on a nil Listener.
C15_SignalNeverFaults == ~(trapped /\ signalled /\ pc = "panic")

\* C16: on a run given a primary, whenever the construction call is about
\* to be made or has been made, saveProviders has returned, and if it
\* returned an error that error has been logged.
C16_SaveBeforeConstruction ==
    (primaryFlag # Empty /\ (pc = "client" \/ c.kind # "none")) =>
        /\ saveErr \in { "nil", "err" }
        /\ saveErr = "err" => "save" \in logged

\* A construction call made after a save whose failure was logged.
C16_Witness ==
    /\ primaryFlag # Empty
    /\ c.kind # "none"
    /\ saveErr = "err"
    /\ "save" \in logged

\* C17: on a run given a primary, a failed save is logged and does not end
\* the run: the run goes on to the trust-level validation, so it ends, if at
\* all, with an error of a later step or with nil, and its construction call
\* carries the given primary and witnesses.
C17_SaveFailureNotFatal ==
    (primaryFlag # Empty /\ saveErr = "err") =>
        /\ "save" \in logged
        /\ pc \in { "trustLevel", "done" } => TrustLevelReached
        /\ pc = "done" =>
              ret \in { "InvalidTrustLevel", "ConstructionError",
                        "RPCClientError", "nil" }
        /\ c.kind # "none" =>
              /\ c.primary = primaryFlag
              /\ IsWitnessListOf(c.witnesses, witnessAddrsJoined)

\* The client was built after the write of the witnesses had failed.
C17_Witness ==
    /\ primaryFlag # Empty
    /\ dbFault = "w"
    /\ saveErr = "err"
    /\ c.kind # "none"
    /\ c.err = "nil"
    /\ pc = "rpcClient"

\* C18: a run makes at most one construction call (a call once made is not
\* replaced while the run lasts), on one of the four paths; a listener is
\* bound, or a bind attempted, only after the call returned no error; and
\* after a call that failed the run has ended with that error, no listener
\* bound.
C18_OneConstruction ==
    /\ [](/\ c.kind # "none" =>
              /\ c.kind \in { "fresh", "resume" }
              /\ c.option.mode \in { "sequential", "skipping" }
          /\ (listener # "nil" \/ serveErr # "none" \/ pc \in { "listen", "serve" })
                => (c.kind # "none" /\ c.err = "nil")
          /\ (c.kind # "none" /\ c.err # "nil") =>
                /\ pc = "done"
                /\ ret = c.err
                /\ listener = "nil"
                /\ serveErr = "none")
    /\ [][(c.kind # "none" /\ pc # "done" /\ pc # "panic") => c' = c]_vars
    /\ [][(c.kind # "none" /\ c.err # "nil") => (pc' = "idle" /\ c' = NoClient)]_vars

\* A run ended by the failure of its construction call.
C18_Witness ==
    /\ c.kind = "resume"
    /\ c.err = "ConstructionError"
    /\ pc = "done"
    /\ ret = "ConstructionError"
    /\ listener = "nil"

====
